---- MODULE Spec2Model ----
(***************************************************************************)
(* Verification model of the Moebius-index calculation scripts:            *)
(*   mobius_index_verifcation.py  (class MobiusIndexCalculation, main,     *)
(*                                 __main__ exit codes)                    *)
(*   ahss_quickcheck.py           (decade_index, main)                     *)
(*   MathProof.py                 (class MobiusIndexCalculation)           *)
(*   C_env_micro_script.py        (main with argparse, safe_ratio)         *)
(*                                                                         *)
(* Numbers.  A Python float is modelled as a decimal rational              *)
(*     [n |-> numerator, d |-> denominator > 0, e |-> decimal exponent]    *)
(* with value (n/d) * 10^e.  Arithmetic on these records is exact; the     *)
(* two places where IEEE doubles leave that idealisation and the scripts   *)
(* can observe it are modelled explicitly: 10 ** (-k) underflows to 0.0    *)
(* for k >= 324, and math.log10 is evaluated in fixed point and reported   *)
(* in thousandths of a decade, truncated toward zero.                      *)
(***************************************************************************)
EXTENDS Integers, Sequences, FiniteSets, TLC

None == "None"

\* a record-valued variable that has not been assigned yet
Unset == [unset |-> TRUE]

IsSet(x) == "unset" \notin DOMAIN x

----------------------------------------------------------------------------
(* Decimal rationals *)

Q(n, d, e) == [n |-> n, d |-> d, e |-> e]

QInt(k) == Q(k, 1, 0)

Abs(x) == IF x < 0 THEN -x ELSE x

Sign(x) == IF x < 0 THEN -1 ELSE IF x = 0 THEN 0 ELSE 1

RECURSIVE Pow10(_)
Pow10(k) == IF k <= 0 THEN 1 ELSE 10 * Pow10(k - 1)

RECURSIVE Gcd(_, _)
Gcd(a, b) == IF b = 0 THEN a ELSE Gcd(b, a % b)

RECURSIVE StripTens(_, _, _)
StripTens(n, d, e) ==
    IF n % 10 = 0 THEN StripTens(n \div 10, d, e + 1)
    ELSE IF d % 10 = 0 THEN StripTens(n, d \div 10, e - 1)
    ELSE Q(n, d, e)

\* lowest terms, powers of ten moved to the exponent; zero is 0/1 * 10^0
QReduce(x) ==
    IF x.n = 0 THEN Q(0, 1, 0)
    ELSE LET g == Gcd(Abs(x.n), x.d)
         IN  StripTens(x.n \div g, x.d \div g, x.e)

QIsZero(x) == x.n = 0

QAbs(x) == Q(Abs(x.n), x.d, x.e)

QNeg(x) == Q(-x.n, x.d, x.e)

QMul(x, y) == QReduce(Q(x.n * y.n, x.d * y.d, x.e + y.e))

\* x / y for y # 0; the sign is carried by the numerator
QDiv(x, y) ==
    QReduce(Q(Sign(y.n) * x.n * y.d, x.d * Abs(y.n), x.e - y.e))

QAdd(x, y) ==
    IF x.n = 0 THEN QReduce(y)
    ELSE IF y.n = 0 THEN QReduce(x)
    ELSE LET lo == IF x.e < y.e THEN x.e ELSE y.e
         IN  QReduce(Q(x.n * y.d * Pow10(x.e - lo)
                         + y.n * x.d * Pow10(y.e - lo),
                       x.d * y.d, lo))

QSub(x, y) == QAdd(x, QNeg(y))

\* order of magnitude: the k with 10^k <= |x| < 10^(k+1), for x # 0
RECURSIVE Magnitude(_, _, _)
Magnitude(a, b, k) ==
    IF a < b THEN Magnitude(10 * a, b, k - 1)
    ELSE IF a >= 10 * b THEN Magnitude(a, 10 * b, k + 1)
    ELSE k

\* the pair <<a, b>> scaled so that 1 <= a/b < 10
RECURSIVE Normalised(_, _)
Normalised(a, b) ==
    IF a < b THEN Normalised(10 * a, b)
    ELSE IF a >= 10 * b THEN Normalised(a, 10 * b)
    ELSE <<a, b>>

\* the k with 10^k <= |x| < 10^(k+1), for x # 0
QOrder(x) == Magnitude(Abs(x.n), x.d, 0) + x.e

\* x < y for x > 0 and y > 0: by order of magnitude, then by mantissa
QLessPos(x, y) ==
    IF QOrder(x) # QOrder(y) THEN QOrder(x) < QOrder(y)
    ELSE LET nx == Normalised(x.n, x.d)
             ny == Normalised(y.n, y.d)
         IN  nx[1] * ny[2] < ny[1] * nx[2]

\* x < y, exact
QLess(x, y) ==
    IF Sign(x.n) # Sign(y.n) THEN Sign(x.n) < Sign(y.n)
    ELSE IF Sign(x.n) = 0 THEN FALSE
    ELSE IF Sign(x.n) > 0 THEN QLessPos(x, y)
    ELSE QLessPos(QAbs(y), QAbs(x))

\* x = y as numbers, whatever the representation
QEq(x, y) == ~QLess(x, y) /\ ~QLess(y, x)

----------------------------------------------------------------------------
(* math.log10 in fixed point.  Values in [1, 10) are held as integers      *)
(* scaled by 10^6; the fractional part of the logarithm is produced one    *)
(* binary digit per squaring.                                              *)

\* floor(a * 10^6 / b) for 1 <= a/b < 10, by long division
FixDiv(a, b) ==
    LET q  == a \div b
        r0 == a % b
        d1 == (r0 * 1000) \div b
        r1 == (r0 * 1000) % b
        d2 == (r1 * 1000) \div b
    IN  q * 1000000 + d1 * 1000 + d2

\* floor(X * Y / 10^6) without leaving 32 bits
FixMul(X, Y) ==
    LET xh == X \div 1000
        xl == X % 1000
        yh == Y \div 1000
        yl == Y % 1000
    IN  xh * yh + ((xh * yl + xl * yh + ((xl * yl) \div 1000)) \div 1000)

\* the first k binary digits of log10(X / 10^6), as an integer
RECURSIVE LogBits(_, _, _)
LogBits(X, k, acc) ==
    IF k = 0 THEN acc
    ELSE LET sq == FixMul(X, X)
         IN  IF sq >= 10000000
             THEN LogBits(sq \div 10, k - 1, 2 * acc + 1)
             ELSE LogBits(sq, k - 1, 2 * acc)

\* math.log10(x) for x > 0, in thousandths of a decade, truncated toward 0
Log10Milli(x) ==
    LET k    == Magnitude(x.n, x.d, 0) + x.e
        nm   == Normalised(x.n, x.d)
        bits == LogBits(FixDiv(nm[1], nm[2]), 20, 0)
    IN  IF k >= 0
        THEN k * 1000 + ((bits * 1000) \div 1048576)
        ELSE IF bits = 0 THEN k * 1000
        ELSE -(((-k) - 1) * 1000 + (((1048576 - bits) * 1000) \div 1048576))

\* the outcome of an expression: a value or the exception it raises
Ok(v) == [exc |-> None, val |-> v]

Raise(name) == [exc |-> name, val |-> None]

\* x / y on floats: Python raises on a zero divisor
float_div(x, y) ==
    IF QIsZero(y) THEN Raise("ZeroDivisionError") ELSE Ok(QDiv(x, y))

\* math.log10(x): a domain error unless x > 0
math_log10(x) ==
    IF x.n <= 0 THEN Raise("ValueError") ELSE Ok(Log10Milli(x))

log10_checked_first(observed, predicted) ==
    IF observed.n <= 0 \/ predicted.n <= 0 THEN Raise("ValueError")
    ELSE math_log10(QDiv(observed, predicted))

\* math.log10(observed / predicted): the division is evaluated first
log10_of_quotient(observed, predicted) ==
    LET quot == float_div(observed, predicted)
    IN  IF quot.exc # None THEN quot ELSE math_log10(quot.val)

----------------------------------------------------------------------------
(* State.  Three groups of variables, one per specification below; a       *)
(* specification leaves the other two groups at their initial values.      *)

\* the run of mobius_index_verifcation.py, MathProof.py or
\* ahss_quickcheck.py
VARIABLES script, cohomology_dimensions, pin_coefficients, planck_density,
          observed_density, pc, call, i, total_rank, panel_data, ahss_data,
          m_rank, physics, test_m, sensitivity, status, agreement, exc,
          exit_code

\* the last two applications of a pure function
VARIABLES fn, args, ret, prev

\* the run of C_env_micro_script.py
VARIABLES argv, cli_pc, cli_args, stdout, coeffs, diffs, C_env_A0, C_env_A2,
          series, t_vals, C_env_t, cli_exc, cli_exit

\* the frame of K_odd(t, L, Wmax): its arguments, the loop variable w, the
\* sum s, the values of w the loop has visited, the returned value; and
\* the values the kernel block of main has printed
VARIABLES K_pc, K_t, K_L, K_Wmax, K_w, K_s, K_visited, K_ret, K_odd_printed

inputs == <<script, cohomology_dimensions, pin_coefficients, planck_density,
            observed_density>>

mvars == <<script, cohomology_dimensions, pin_coefficients, planck_density,
           observed_density, pc, call, i, total_rank, panel_data, ahss_data,
           m_rank, physics, test_m, sensitivity, status, agreement, exc,
           exit_code>>

fvars == <<fn, args, ret, prev>>

cvars == <<argv, cli_pc, cli_args, stdout, coeffs, diffs, C_env_A0, C_env_A2,
           series, t_vals, C_env_t, cli_exc, cli_exit>>

kvars == <<K_pc, K_t, K_L, K_Wmax, K_w, K_s, K_visited, K_ret, K_odd_printed>>

vars == <<mvars, fvars, cvars, kvars>>

----------------------------------------------------------------------------
(* The pure functions of the scripts *)

\* 2 ^ m as Python reads it (bitwise xor), for the mistyped power
Xor2(m) == IF (m \div 2) % 2 = 1 THEN m - 2 ELSE m + 2

decade_index_xor(m) == (Xor2(m) - 1) - m + 3

decade_index_minus3(m) == (2^m - 1) - m - 3

\* MobiusIndexCalculation.decade_index, mobius_index_verifcation.py
decade_index(m) == (2^m - 1) - m + 3

\* decade_index, ahss_quickcheck.py
decade_index_quickcheck(m) == (2^m - 1) - m + 3

\* MobiusIndexCalculation.decade_index, MathProof.py
decade_index_MathProof(m) == (2^m - 1) - m + 3

Scripts == {"mobius_index_verifcation", "ahss_quickcheck", "MathProof"}

decade_index_of(file, m) ==
    CASE file = "mobius_index_verifcation" -> decade_index(m)
      [] file = "ahss_quickcheck"          -> decade_index_quickcheck(m)
      [] file = "MathProof"                -> decade_index_MathProof(m)

pow10_pos(I10) == Q(1, 1, I10)

\* 10 ** (-I10): int ** negative int is a float; below 1e-323 it is 0.0
pow10_neg(I10) == IF I10 >= 324 THEN Q(0, 1, 0) ELSE Q(1, 1, -I10)

\* planck_density * (10 ** (-I10))
predicted_density(planck, I10) == QMul(planck, pow10_neg(I10))

\* float("nan"): the record no number has, 0/0
NaN == Q(0, 0, 0)

safe_ratio_no_abs(num, den) ==
    IF QLess(den, Q(1, 1, -30)) THEN Ok(NaN)
    ELSE LET quot == float_div(num, den)
         IN  IF quot.exc # None THEN quot
             ELSE Ok(QMul(Q(5, 1, -1), quot.val))

\* safe_ratio, C_env_micro_script.py
safe_ratio(num, den) ==
    IF QLess(QAbs(den), Q(1, 1, -30)) THEN Ok(NaN)
    ELSE LET quot == float_div(num, den)
         IN  IF quot.exc # None THEN quot
             ELSE Ok(QMul(Q(5, 1, -1), quot.val))

\* (1 - abs(agreement_decades) / math.log10(observed / planck)) * 100
accuracy_percent(agreement_decades, observed, planck) ==
    LET span == log10_of_quotient(observed, planck)
    IN  IF span.exc # None THEN span
        ELSE IF span.val = 0 THEN Raise("ZeroDivisionError")
        ELSE Ok(QDiv(QInt(100 * (span.val - Abs(agreement_decades))),
                     QInt(span.val)))

\* verify_physical_prediction without the accuracy entry
\* (ahss_quickcheck.py main, MathProof.py)
predict_and_compare(planck, observed, I10) ==
    LET predicted == predicted_density(planck, I10)
        agr == log10_of_quotient(observed, predicted)
    IN  IF agr.exc # None THEN agr
        ELSE Ok([I10 |-> I10,
                 predicted_density |-> predicted,
                 agreement_decades |-> agr.val])

\* MobiusIndexCalculation.verify_physical_prediction,
\* mobius_index_verifcation.py
verify_physical_prediction(planck, observed, m) ==
    LET I10 == decade_index(m)
        res == predict_and_compare(planck, observed, I10)
        acc == accuracy_percent(res.val.agreement_decades, observed, planck)
    IN  IF res.exc # None THEN res
        ELSE IF acc.exc # None THEN acc
        ELSE Ok([I10 |-> I10,
                 predicted_density |-> res.val.predicted_density,
                 observed_density |-> observed,
                 agreement_decades |-> res.val.agreement_decades,
                 accuracy_percent |-> acc.val])

----------------------------------------------------------------------------
(* The scripts as state machines.  The attributes set by __init__ (the     *)
(* two coefficient mappings and the two densities) are the inputs; the     *)
(* built-in values are among them.                                         *)

MaxDim == 2

PinRanks == {1, 2}

PKeys == {2, 3, 4, 5}

QKeys == {0, 1, 2, 3}

\* e2_panels: the fixed list of (name, p, q) on the diagonal p + q = 5
e2_panels ==
    << [panel |-> "E^{5,0}_2", p |-> 5, q |-> 0],
       [panel |-> "E^{4,1}_2", p |-> 4, q |-> 1],
       [panel |-> "E^{3,2}_2", p |-> 3, q |-> 2],
       [panel |-> "E^{2,3}_2", p |-> 2, q |-> 3] >>

cohomology_dimensions_builtin == (2 :> 2) @@ (3 :> 1) @@ (4 :> 2) @@ (5 :> 2)

pin_coefficients_builtin == (0 :> 1) @@ (1 :> 1) @@ (2 :> 1) @@ (3 :> 1)

\* mappings over all keys or over all keys but one
MappingsOver(keys, values) ==
    UNION { [D -> values] :
              D \in {keys} \cup { keys \ {k} : k \in keys } }

\* (planck_density, observed_density) pairs: the built-in pair, an
\* agreement of -0.1 exactly, one just inside, one outside, and a zero
\* observation
DensityPairs ==
    { <<Q(516, 1, 94), Q(583, 1, -29)>>,
      <<Q(1, 1, 96), Q(7943, 1, -31)>>,
      <<Q(1, 1, 96), Q(7944, 1, -31)>>,
      <<Q(1, 1, 96), Q(2, 1, -27)>>,
      <<Q(516, 1, 94), Q(0, 1, 0)>> }

lookup_default(mapping, key) ==
    IF key \in DOMAIN mapping THEN Ok(mapping[key]) ELSE Ok(0)

\* mapping[key]: a KeyError carrying the key when the key is absent
lookup(mapping, key) ==
    IF key \in DOMAIN mapping THEN Ok(mapping[key])
    ELSE [exc |-> "KeyError", val |-> key]

\* the exception an outcome raises, with its argument
Exception(r) == [type |-> r.exc, arg |-> r.val]

NoException == [type |-> None, arg |-> None]

\* the first panel of e2_panels with an absent p or q key, 0 if none
first_absent(dims, pins) ==
    LET absent == { k \in 1..Len(e2_panels) :
                      \/ e2_panels[k].p \notin DOMAIN dims
                      \/ e2_panels[k].q \notin DOMAIN pins }
    IN  IF absent = {} THEN 0
        ELSE CHOOSE k \in absent : \A j \in absent : k <= j

panel_rank_sum(h_dimension, pin_rank) == h_dimension + pin_rank

\* rank = h_dimension * pin_rank
panel_rank(h_dimension, pin_rank) == h_dimension * pin_rank

exit_status_inclusive(agreement_decades) ==
    IF Abs(agreement_decades) <= 100 THEN 0 ELSE 1

\* 0 if abs(agreement) < 0.1 else 1
exit_status(agreement_decades) ==
    IF Abs(agreement_decades) < 100 THEN 0 ELSE 1

MobiusInit ==
    /\ script \in Scripts
    /\ cohomology_dimensions \in MappingsOver(PKeys, 1..MaxDim)
    /\ pin_coefficients \in MappingsOver(QKeys, PinRanks)
    /\ \E pair \in DensityPairs :
          planck_density = pair[1] /\ observed_density = pair[2]
    /\ pc = "start"
    /\ call = 0
    /\ i = 0
    /\ total_rank = None
    /\ panel_data = <<>>
    /\ ahss_data = Unset
    /\ m_rank = None
    /\ physics = Unset
    /\ test_m = None
    /\ sensitivity = <<>>
    /\ status = None
    /\ agreement = None
    /\ exc = NoException
    /\ exit_code = None

\* the class scripts: mobius_index_verifcation.py and MathProof.py
ClassScripts == {"mobius_index_verifcation", "MathProof"}

\* compute_ahss_e2_ranks is entered: run_verification calls it twice
\* (lines 133 and 134), MathProof.py calls it once (line 60)
compute_ahss_e2_ranks_enter ==
    /\ script \in ClassScripts
    /\ pc \in {"start", "second_call"}
    /\ call' = call + 1
    /\ total_rank' = 0
    /\ panel_data' = <<>>
    /\ i' = 1
    /\ pc' = "panel"
    /\ UNCHANGED <<inputs, ahss_data, m_rank, physics, test_m, sensitivity,
                   status, agreement, exc, exit_code>>
    /\ UNCHANGED <<fvars, cvars, kvars>>

\* one iteration of the loop over e2_panels
compute_ahss_e2_ranks_panel ==
    /\ script \in ClassScripts
    /\ pc = "panel"
    /\ i <= Len(e2_panels)
    /\ LET p == e2_panels[i].p
           q == e2_panels[i].q
           h_dimension == lookup(cohomology_dimensions, p)
           pin_rank == lookup(pin_coefficients, q)
       IN  IF h_dimension.exc # None \/ pin_rank.exc # None
           THEN /\ exc' = IF h_dimension.exc # None
                          THEN Exception(h_dimension)
                          ELSE Exception(pin_rank)
                /\ pc' = "raised"
                /\ UNCHANGED <<i, total_rank, panel_data>>
           ELSE LET rank == panel_rank(h_dimension.val, pin_rank.val)
                IN  /\ panel_data' = Append(panel_data,
                           [panel |-> e2_panels[i].panel, p |-> p, q |-> q,
                            h_dim |-> h_dimension.val,
                            pin_rank |-> pin_rank.val, rank |-> rank])
                    /\ total_rank' = total_rank + rank
                    /\ i' = i + 1
                    /\ UNCHANGED <<pc, exc>>
    /\ UNCHANGED <<inputs, call, ahss_data, m_rank, physics, test_m, sensitivity,
                   status, agreement, exit_code>>
    /\ UNCHANGED <<fvars, cvars, kvars>>

\* return panel_data, total_rank
compute_ahss_e2_ranks_return ==
    /\ script \in ClassScripts
    /\ pc = "panel"
    /\ i > Len(e2_panels)
    /\ IF script = "mobius_index_verifcation" /\ call = 1
       THEN /\ ahss_data' = [panel_data |-> panel_data,
                             total_rank |-> total_rank]
            /\ pc' = "second_call"
            /\ UNCHANGED m_rank
       ELSE IF script = "mobius_index_verifcation"
       THEN /\ m_rank' = total_rank
            /\ pc' = "verify"
            /\ UNCHANGED ahss_data
       ELSE /\ ahss_data' = [panel_data |-> panel_data,
                             total_rank |-> total_rank]
            /\ m_rank' = total_rank
            /\ pc' = "verify"
    /\ UNCHANGED <<inputs, call, i, total_rank, panel_data, physics, test_m,
                   sensitivity, status, agreement, exc, exit_code>>
    /\ UNCHANGED <<fvars, cvars, kvars>>

\* 'physics': self.verify_physical_prediction(...) in run_verification
run_verification_physics ==
    /\ script = "mobius_index_verifcation"
    /\ pc = "verify"
    /\ LET r == verify_physical_prediction(planck_density, observed_density,
                                           m_rank)
       IN  IF r.exc # None
           THEN /\ exc' = Exception(r)
                /\ pc' = "raised"
                /\ UNCHANGED physics
           ELSE /\ physics' = r.val
                /\ pc' = "display"
                /\ UNCHANGED exc
    /\ UNCHANGED <<inputs, call, i, total_rank, panel_data, ahss_data, m_rank,
                   test_m, sensitivity, status, agreement, exit_code>>
    /\ UNCHANGED <<fvars, cvars, kvars>>

\* main prints the inputs, the AHSS table and the prediction, then starts
\* the sensitivity loop: for test_m in range(6, 9)
main_display ==
    /\ script = "mobius_index_verifcation"
    /\ pc = "display"
    /\ test_m' = 6
    /\ pc' = "sensitivity"
    /\ UNCHANGED <<inputs, call, i, total_rank, panel_data, ahss_data, m_rank,
                   physics, sensitivity, status, agreement, exc, exit_code>>
    /\ UNCHANGED <<fvars, cvars, kvars>>

\* one iteration of the sensitivity loop
main_sensitivity ==
    /\ script = "mobius_index_verifcation"
    /\ pc = "sensitivity"
    /\ test_m <= 8
    /\ LET r == verify_physical_prediction(planck_density, observed_density,
                                           test_m)
       IN  IF r.exc # None
           THEN /\ exc' = Exception(r)
                /\ pc' = "raised"
                /\ UNCHANGED <<test_m, sensitivity>>
           ELSE /\ sensitivity' = Append(sensitivity,
                       [m |-> test_m, I10 |-> r.val.I10,
                        agreement_decades |-> r.val.agreement_decades])
                /\ test_m' = test_m + 1
                /\ UNCHANGED <<pc, exc>>
    /\ UNCHANGED <<inputs, call, i, total_rank, panel_data, ahss_data, m_rank,
                   physics, status, agreement, exit_code>>
    /\ UNCHANGED <<fvars, cvars, kvars>>

\* the verification summary; main returns physics['agreement_decades']
main_summary ==
    /\ script = "mobius_index_verifcation"
    /\ pc = "sensitivity"
    /\ test_m > 8
    /\ status' = IF Abs(physics.agreement_decades) < 100
                 THEN "SUCCESSFUL" ELSE "FAILED"
    /\ agreement' = physics.agreement_decades
    /\ pc' = "returned"
    /\ UNCHANGED <<inputs, call, i, total_rank, panel_data, ahss_data, m_rank,
                   physics, test_m, sensitivity, exc, exit_code>>
    /\ UNCHANGED <<fvars, cvars, kvars>>

\* sys.exit(0 if abs(agreement) < 0.1 else 1)
sys_exit ==
    /\ script = "mobius_index_verifcation"
    /\ pc = "returned"
    /\ exit_code' = exit_status(agreement)
    /\ pc' = "exited"
    /\ UNCHANGED <<inputs, call, i, total_rank, panel_data, ahss_data, m_rank,
                   physics, test_m, sensitivity, status, agreement, exc>>
    /\ UNCHANGED <<fvars, cvars, kvars>>

\* except Exception as e: ... sys.exit(2)
except_handler ==
    /\ script = "mobius_index_verifcation"
    /\ pc = "raised"
    /\ exit_code' = 2
    /\ pc' = "exited"
    /\ UNCHANGED <<inputs, call, i, total_rank, panel_data, ahss_data, m_rank,
                   physics, test_m, sensitivity, status, agreement, exc>>
    /\ UNCHANGED <<fvars, cvars, kvars>>

\* MathProof.py: physics = calc.verify_physical_prediction(m)
MathProof_physics ==
    /\ script = "MathProof"
    /\ pc = "verify"
    /\ LET r == predict_and_compare(planck_density, observed_density,
                                    decade_index_MathProof(m_rank))
       IN  IF r.exc # None
           THEN /\ exc' = Exception(r)
                /\ pc' = "raised"
                /\ UNCHANGED physics
           ELSE /\ physics' = r.val
                /\ pc' = "result"
                /\ UNCHANGED exc
    /\ UNCHANGED <<inputs, call, i, total_rank, panel_data, ahss_data, m_rank,
                   test_m, sensitivity, status, agreement, exit_code>>
    /\ UNCHANGED <<fvars, cvars, kvars>>

\* MathProof.py: success = abs(physics['agreement_decades']) < 0.1
MathProof_result ==
    /\ script = "MathProof"
    /\ pc = "result"
    /\ status' = IF Abs(physics.agreement_decades) < 100
                 THEN "BREAKTHROUGH" ELSE "FAILURE"
    /\ pc' = "finished"
    /\ UNCHANGED <<inputs, call, i, total_rank, panel_data, ahss_data, m_rank,
                   physics, test_m, sensitivity, agreement, exc, exit_code>>
    /\ UNCHANGED <<fvars, cvars, kvars>>

\* ahss_quickcheck.py: the list e2_panels is built with its four products,
\* in order; the first absent key raises
quickcheck_e2_panels ==
    /\ script = "ahss_quickcheck"
    /\ pc = "start"
    /\ IF first_absent(cohomology_dimensions, pin_coefficients) # 0
       THEN /\ LET k == first_absent(cohomology_dimensions, pin_coefficients)
                    h == lookup(cohomology_dimensions, e2_panels[k].p)
               IN  exc' = IF h.exc # None THEN Exception(h)
                          ELSE Exception(lookup(pin_coefficients,
                                                e2_panels[k].q))
            /\ pc' = "raised"
            /\ UNCHANGED <<panel_data, total_rank, i>>
       ELSE /\ panel_data' =
                 [k \in 1..Len(e2_panels) |->
                    [panel |-> e2_panels[k].panel,
                     p |-> e2_panels[k].p, q |-> e2_panels[k].q,
                     rank |-> panel_rank(
                        lookup(cohomology_dimensions, e2_panels[k].p).val,
                        lookup(pin_coefficients, e2_panels[k].q).val)]]
            /\ total_rank' = 0
            /\ i' = 1
            /\ pc' = "qc_loop"
            /\ UNCHANGED exc
    /\ UNCHANGED <<inputs, call, ahss_data, m_rank, physics, test_m,
                   sensitivity, status, agreement, exit_code>>
    /\ UNCHANGED <<fvars, cvars, kvars>>

\* ahss_quickcheck.py: one iteration of the loop that prints a panel and
\* adds its rank; h_dim and pin_rank are looked up again for display, with
\* the other index as the alternative key
quickcheck_panel ==
    /\ script = "ahss_quickcheck"
    /\ pc = "qc_loop"
    /\ i <= Len(panel_data)
    /\ LET p == panel_data[i].p
           q == panel_data[i].q
           h_dim == IF p \in DOMAIN cohomology_dimensions
                    THEN lookup(cohomology_dimensions, p)
                    ELSE lookup(cohomology_dimensions, q)
           pin_rank == IF q \in DOMAIN pin_coefficients
                       THEN lookup(pin_coefficients, q)
                       ELSE lookup(pin_coefficients, p)
       IN  IF h_dim.exc # None \/ pin_rank.exc # None
           THEN /\ exc' = IF h_dim.exc # None
                          THEN Exception(h_dim) ELSE Exception(pin_rank)
                /\ pc' = "raised"
                /\ UNCHANGED <<i, total_rank, sensitivity>>
           ELSE /\ total_rank' = total_rank + panel_data[i].rank
                /\ i' = i + 1
                /\ UNCHANGED <<pc, exc, sensitivity>>
    /\ UNCHANGED <<inputs, call, panel_data, ahss_data, m_rank, physics,
                   test_m, status, agreement, exit_code>>
    /\ UNCHANGED <<fvars, cvars, kvars>>

\* ahss_quickcheck.py: the total is printed, m = total_e2_rank, the decade
\* index and the prediction are computed and compared
quickcheck_prediction ==
    /\ script = "ahss_quickcheck"
    /\ pc = "qc_loop"
    /\ i > Len(panel_data)
    /\ ahss_data' = [panel_data |-> panel_data, total_rank |-> total_rank]
    /\ m_rank' = total_rank
    /\ LET r == predict_and_compare(planck_density, observed_density,
                                    decade_index_quickcheck(total_rank))
       IN  IF r.exc # None
           THEN /\ exc' = Exception(r)
                /\ pc' = "raised"
                /\ UNCHANGED <<physics, test_m>>
           ELSE /\ physics' = r.val
                /\ test_m' = 6
                /\ pc' = "qc_compare"
                /\ UNCHANGED exc
    /\ UNCHANGED <<inputs, call, i, total_rank, panel_data, sensitivity,
                   status, agreement, exit_code>>
    /\ UNCHANGED <<fvars, cvars, kvars>>

\* ahss_quickcheck.py: comparison with other m values, range(6, 9)
quickcheck_compare ==
    /\ script = "ahss_quickcheck"
    /\ pc = "qc_compare"
    /\ IF test_m <= 8
       THEN LET r == predict_and_compare(planck_density, observed_density,
                                         decade_index_quickcheck(test_m))
            IN  IF r.exc # None
                THEN /\ exc' = Exception(r)
                     /\ pc' = "raised"
                     /\ UNCHANGED <<test_m, sensitivity>>
                ELSE /\ sensitivity' = Append(sensitivity,
                            [m |-> test_m, I10 |-> r.val.I10,
                             agreement_decades |-> r.val.agreement_decades])
                     /\ test_m' = test_m + 1
                     /\ UNCHANGED <<pc, exc>>
       ELSE /\ pc' = "finished"
            /\ UNCHANGED <<test_m, sensitivity, exc>>
    /\ UNCHANGED <<inputs, call, i, total_rank, panel_data, ahss_data, m_rank,
                   physics, status, agreement, exit_code>>
    /\ UNCHANGED <<fvars, cvars, kvars>>

\* a script without a handler: the interpreter exits with 0 at the end of
\* the script and with 1 after an uncaught exception
interpreter_exit ==
    /\ script \in {"MathProof", "ahss_quickcheck"}
    /\ pc \in {"finished", "raised"}
    /\ exit_code' = IF pc = "raised" THEN 1 ELSE 0
    /\ pc' = "exited"
    /\ UNCHANGED <<inputs, call, i, total_rank, panel_data, ahss_data, m_rank,
                   physics, test_m, sensitivity, status, agreement, exc>>
    /\ UNCHANGED <<fvars, cvars, kvars>>

MobiusNext ==
    \/ compute_ahss_e2_ranks_enter
    \/ compute_ahss_e2_ranks_panel
    \/ compute_ahss_e2_ranks_return
    \/ run_verification_physics
    \/ main_display
    \/ main_sensitivity
    \/ main_summary
    \/ sys_exit
    \/ except_handler
    \/ MathProof_physics
    \/ MathProof_result
    \/ quickcheck_e2_panels
    \/ quickcheck_panel
    \/ quickcheck_prediction
    \/ quickcheck_compare
    \/ interpreter_exit

----------------------------------------------------------------------------
(* C_env_micro_script.py: main, from argument parsing to the last print *)

\* float(tok) on the tokens that occur; surrounding blanks are accepted
ParseFloat(tok) ==
    CASE tok = "137.035999084" -> Ok(Q(137036, 1, -3))
      [] tok = "0.0"   -> Ok(Q(0, 1, 0))
      [] tok = "1"     -> Ok(Q(1, 1, 0))
      [] tok = "0.1"   -> Ok(Q(1, 1, -1))
      [] tok = "0.05"  -> Ok(Q(5, 1, -2))
      [] tok = " 0.02" -> Ok(Q(2, 1, -2))
      [] tok = "1e-2"  -> Ok(Q(1, 1, -2))
      [] OTHER         -> Raise("ValueError")

\* tok.strip() is empty
IsBlank(tok) == tok \in {"", " "}

\* command lines: --alpha, --zero-A0, the four optional coefficients,
\* --t-grid already split at the commas, --print-odd-kernel
TGrids ==
    { <<"0.1", "0.05", " 0.02", "1e-2">>, <<"0.1", "", "0.05">>, <<" ">>,
      <<"0.1", "abc">>, <<"abc">>, <<"0.1", "0.05", "1e-2x">> }

OptionalCoefficients ==
    { [max_dA4 |-> "0.0", max_dA6 |-> "0.0", dir_dA4 |-> "0.0",
       dir_dA6 |-> "0.0"],
      [max_dA4 |-> "1", max_dA6 |-> "0.0", dir_dA4 |-> "0.0",
       dir_dA6 |-> "1"] }

CommandLines ==
    { [alpha |-> a, zero_A0 |-> z, opt |-> o, t_grid |-> g,
       print_odd_kernel |-> k] :
        a \in {"137.035999084", "1.3.7"}, z \in BOOLEAN,
        o \in OptionalCoefficients, g \in TGrids, k \in BOOLEAN }

\* pi ** 2 to three decimals
pi_squared == Q(987, 1, -2)

Vol_S3 == QMul(QInt(2), pi_squared)

Vol_RP3 == pi_squared

R_scalar == QInt(6)

A_coeffs_scalar(vol, R) ==
    [A0 |-> vol, A2 |-> QMul(QMul(Q(1, 6, 0), R), vol)]

A_coeffs_oneform(vol, R) ==
    [A0 |-> QMul(QInt(3), vol),
     A2 |-> QSub(QMul(QMul(Q(1, 6, 0), R), QMul(QInt(3), vol)),
                 QMul(R, vol))]

A_coeffs_maxwell(vol, R) ==
    [A0 |-> QSub(A_coeffs_oneform(vol, R).A0, A_coeffs_scalar(vol, R).A0),
     A2 |-> QSub(A_coeffs_oneform(vol, R).A2, A_coeffs_scalar(vol, R).A2)]

A_coeffs_dirac_rank1(vol, R) ==
    [A0 |-> QMul(QInt(2), vol),
     A2 |-> QAdd(QMul(QMul(Q(1, 6, 0), R), QMul(QInt(2), vol)),
                 QMul(QMul(R, Q(1, 4, 0)), vol))]

A_coeffs_dirac(vol, R) ==
    [A0 |-> QMul(QInt(2), vol),
     A2 |-> QAdd(QMul(QMul(Q(1, 6, 0), R), QMul(QInt(2), vol)),
                 QMul(QMul(R, Q(1, 4, 0)), QMul(QInt(2), vol)))]

coeffs_on_N(vol) ==
    [scalar  |-> A_coeffs_scalar(vol, R_scalar),
     maxwell |-> A_coeffs_maxwell(vol, R_scalar),
     dirac   |-> A_coeffs_dirac(vol, R_scalar)]

\* X.dA0 + X.dA2*t + X.dA4*(t**2) + X.dA6*(t**3)
series_value(X, t) ==
    QAdd(QAdd(QAdd(X.dA0, QMul(X.dA2, t)), QMul(X.dA4, QMul(t, t))),
         QMul(X.dA6, QMul(t, QMul(t, t))))

C_env_series(M, D, t) == safe_ratio(series_value(M, t), series_value(D, t))

\* [float(tok) for tok in args.t_grid.split(",") if tok.strip()]: the
\* values in order, or the ValueError of the first token float rejects
RECURSIVE parse_t_grid(_)
parse_t_grid(toks) ==
    IF toks = <<>> THEN Ok(<<>>)
    ELSE IF IsBlank(Head(toks)) THEN parse_t_grid(Tail(toks))
    ELSE LET first == ParseFloat(Head(toks))
             rest  == parse_t_grid(Tail(toks))
         IN  IF first.exc # None THEN first
             ELSE IF rest.exc # None THEN rest
             ELSE Ok(<<first.val>> \o rest.val)

CliInit ==
    /\ argv \in CommandLines
    /\ cli_pc = "parse_args"
    /\ cli_args = Unset
    /\ stdout = <<>>
    /\ coeffs = Unset
    /\ diffs = Unset
    /\ C_env_A0 = Unset
    /\ C_env_A2 = Unset
    /\ series = Unset
    /\ t_vals = <<>>
    /\ C_env_t = <<>>
    /\ cli_exc = NoException
    /\ cli_exit = None

\* args = parser.parse_args(): the type=float options are converted here,
\* and argparse exits with status 2 on a value float rejects; --t-grid is
\* type=str and is taken as it is
parse_args ==
    /\ cli_pc = "parse_args"
    /\ LET alpha == ParseFloat(argv.alpha)
           max_dA4 == ParseFloat(argv.opt.max_dA4)
           max_dA6 == ParseFloat(argv.opt.max_dA6)
           dir_dA4 == ParseFloat(argv.opt.dir_dA4)
           dir_dA6 == ParseFloat(argv.opt.dir_dA6)
       IN  IF \E r \in {alpha, max_dA4, max_dA6, dir_dA4, dir_dA6} :
                 r.exc # None
           THEN /\ cli_exc' = [type |-> "SystemExit", arg |-> 2]
                /\ cli_exit' = 2
                /\ cli_pc' = "exited"
                /\ UNCHANGED cli_args
           ELSE /\ cli_args' = [alpha |-> alpha.val,
                                zero_A0 |-> argv.zero_A0,
                                max_dA4 |-> max_dA4.val,
                                max_dA6 |-> max_dA6.val,
                                dir_dA4 |-> dir_dA4.val,
                                dir_dA6 |-> dir_dA6.val,
                                t_grid |-> argv.t_grid,
                                print_odd_kernel |-> argv.print_odd_kernel]
                /\ cli_pc' = "geometry"
                /\ UNCHANGED <<cli_exc, cli_exit>>
    /\ UNCHANGED <<argv, stdout, coeffs, diffs, C_env_A0, C_env_A2, series,
                   t_vals, C_env_t>>
    /\ UNCHANGED <<mvars, fvars, kvars>>

\* the constants and the "=== Geometry (unit round) ===" block
print_geometry ==
    /\ cli_pc = "geometry"
    /\ stdout' = Append(stdout, "Geometry")
    /\ cli_pc' = "coefficients"
    /\ UNCHANGED <<argv, cli_args, coeffs, diffs, C_env_A0, C_env_A2, series,
                   t_vals, C_env_t, cli_exc, cli_exit>>
    /\ UNCHANGED <<mvars, fvars, kvars>>

\* the per-manifold coefficients, printed for S^3 and RP^3, and the two
\* evaluations of coeffs_on_N kept for the differences
print_coefficients ==
    /\ cli_pc = "coefficients"
    /\ coeffs' = [S3 |-> coeffs_on_N(Vol_S3), RP3 |-> coeffs_on_N(Vol_RP3)]
    /\ stdout' = stdout \o <<"Coefficients on S^3", "Coefficients on RP^3">>
    /\ cli_pc' = "differences"
    /\ UNCHANGED <<argv, cli_args, diffs, C_env_A0, C_env_A2, series, t_vals,
                   C_env_t, cli_exc, cli_exit>>
    /\ UNCHANGED <<mvars, fvars, kvars>>

\* the parity-projected differences (RP^3 - S^3)
parity_differences ==
    /\ cli_pc = "differences"
    /\ diffs' = [dA0m |-> QSub(coeffs.RP3.maxwell.A0, coeffs.S3.maxwell.A0),
                 dA2m |-> QSub(coeffs.RP3.maxwell.A2, coeffs.S3.maxwell.A2),
                 dA0d |-> QSub(coeffs.RP3.dirac.A0, coeffs.S3.dirac.A0),
                 dA2d |-> QSub(coeffs.RP3.dirac.A2, coeffs.S3.dirac.A2)]
    /\ stdout' = Append(stdout, "Parity-projected differences")
    /\ cli_pc' = "naive"
    /\ UNCHANGED <<argv, cli_args, coeffs, C_env_A0, C_env_A2, series, t_vals,
                   C_env_t, cli_exc, cli_exit>>
    /\ UNCHANGED <<mvars, fvars, kvars>>

\* the naive ratios from the leading coefficients
naive_ratios ==
    /\ cli_pc = "naive"
    /\ C_env_A0' = safe_ratio(diffs.dA0m, diffs.dA0d).val
    /\ C_env_A2' = safe_ratio(diffs.dA2m, diffs.dA2d).val
    /\ stdout' = Append(stdout, "Naive C_env")
    /\ cli_pc' = "odd_kernel"
    /\ UNCHANGED <<argv, cli_args, coeffs, diffs, series, t_vals, C_env_t,
                   cli_exc, cli_exit>>
    /\ UNCHANGED <<mvars, fvars, kvars>>

\* math.pi to two decimals
pi == Q(314, 1, -2)

\* the default L = 2*math.pi of K_odd
L_default == QMul(QInt(2), pi)

\* the default Wmax = 25 of K_odd
Wmax_default == 25

\* for t in [0.5, 0.2, 0.1, 0.05, 0.02]
KernelTimes ==
    <<Q(5, 1, -1), Q(2, 1, -1), Q(1, 1, -1), Q(5, 1, -2), Q(2, 1, -2)>>

odd_winding_positive(w) == w > 0 /\ w % 2 # 0

\* w % 2 != 0: Python's remainder has the sign of the divisor, so it is 1
\* for every odd w, negative ones included
odd_winding(w) == w % 2 # 0

\* math.exp(x), kept as the exponential of its exact argument
math_exp(x) == [exp |-> x]

\* math.exp(-(L*L)*(w*w)/(4.0*t)), each intermediate value computed once:
\* L*L, then -(L*L)*(w*w), then 4.0*t, then the quotient
gaussian_term(L, w, t) ==
    LET terms ==
          { math_exp(QDiv(num, den)) :
              num \in { QMul(QNeg(LL), QInt(w * w)) : LL \in {QMul(L, L)} },
              den \in { QMul(QInt(4), t) } }
    IN  CHOOSE x \in terms : TRUE

\* (2*L)/math.sqrt(4*math.pi*t) * s, with the square root kept by its
\* argument and the sum s by its summands in the order they were added
kernel_value(L, t, s) ==
    [two_L |-> QMul(QInt(2), L), sqrt |-> QMul(QMul(QInt(4), pi), t),
     s |-> s]

\* no call of K_odd is in progress
KernelIdle ==
    /\ K_pc = "idle"
    /\ K_t = Unset
    /\ K_L = Unset
    /\ K_Wmax = 0
    /\ K_w = 0
    /\ K_s = <<>>
    /\ K_visited = <<>>
    /\ K_ret = Unset
    /\ K_odd_printed = <<>>

\* one pass of  for w in range(-Wmax, Wmax+1): if w % 2 != 0: s += ...
K_odd_iteration ==
    /\ K_pc = "loop"
    /\ K_w < K_Wmax + 1
    /\ K_visited' = Append(K_visited, K_w)
    /\ K_s' = IF odd_winding(K_w)
              THEN Append(K_s, gaussian_term(K_L, K_w, K_t)) ELSE K_s
    /\ K_w' = K_w + 1
    /\ UNCHANGED <<K_pc, K_t, K_L, K_Wmax, K_ret, K_odd_printed>>
    /\ UNCHANGED <<mvars, fvars, cvars>>

\* the range is exhausted: return (2*L)/math.sqrt(4*math.pi*t) * s
K_odd_return ==
    /\ K_pc = "loop"
    /\ ~(K_w < K_Wmax + 1)
    /\ K_ret' = kernel_value(K_L, K_t, K_s)
    /\ K_pc' = "returned"
    /\ UNCHANGED <<K_t, K_L, K_Wmax, K_w, K_s, K_visited, K_odd_printed>>
    /\ UNCHANGED <<mvars, fvars, cvars>>

\* if args.print_odd_kernel: the heading of the kernel block
print_odd_kernel ==
    /\ cli_pc = "odd_kernel"
    /\ IF cli_args.print_odd_kernel
       THEN /\ stdout' = Append(stdout, "Odd-winding kernel")
            /\ cli_pc' = "kernel_loop"
       ELSE /\ cli_pc' = "series_model"
            /\ UNCHANGED stdout
    /\ UNCHANGED <<argv, cli_args, coeffs, diffs, C_env_A0, C_env_A2, series,
                   t_vals, C_env_t, cli_exc, cli_exit>>
    /\ UNCHANGED <<mvars, fvars, kvars>>

\* K_odd(t) is called with the next t of the list and the default L, Wmax
odd_kernel_call ==
    /\ cli_pc = "kernel_loop"
    /\ K_pc = "idle"
    /\ K_t' = KernelTimes[Len(K_odd_printed) + 1]
    /\ K_L' = L_default
    /\ K_Wmax' = Wmax_default
    /\ K_w' = -Wmax_default
    /\ K_s' = <<>>
    /\ K_visited' = <<>>
    /\ K_ret' = Unset
    /\ K_pc' = "loop"
    /\ UNCHANGED K_odd_printed
    /\ UNCHANGED <<mvars, fvars, cvars>>

\* the line "t=...  K_odd(t)=..." is printed; after the last t the block
\* ends
odd_kernel_print ==
    /\ cli_pc = "kernel_loop"
    /\ K_pc = "returned"
    /\ K_odd_printed' = Append(K_odd_printed, K_ret)
    /\ K_pc' = "idle"
    /\ cli_pc' = IF Len(K_odd_printed) + 1 = Len(KernelTimes)
                 THEN "series_model" ELSE "kernel_loop"
    /\ UNCHANGED <<K_t, K_L, K_Wmax, K_w, K_s, K_visited, K_ret>>
    /\ UNCHANGED <<argv, cli_args, stdout, coeffs, diffs, C_env_A0, C_env_A2,
                   series, t_vals, C_env_t, cli_exc, cli_exit>>
    /\ UNCHANGED <<mvars, fvars>>

\* @dataclass class Series: dA0, dA2, dA4 = 0.0, dA6 = 0.0
Series(dA0, dA2, dA4, dA6) ==
    [dA0 |-> dA0, dA2 |-> dA2, dA4 |-> dA4, dA6 |-> dA6]

series_model_ratio_forced ==
    /\ cli_pc = "series_model"
    /\ series' = [M |-> Series(IF cli_args.zero_A0 THEN Q(0, 1, 0)
                               ELSE diffs.dA0m,
                               diffs.dA2m, cli_args.max_dA4, cli_args.max_dA6),
                  D |-> Series(IF cli_args.zero_A0 THEN Q(0, 1, 0)
                               ELSE diffs.dA0d,
                               diffs.dA2d, cli_args.dir_dA4, cli_args.dir_dA6)]
    /\ C_env_A0' = IF cli_args.zero_A0 THEN NaN ELSE C_env_A0
    /\ cli_pc' = "t_grid"
    /\ UNCHANGED <<argv, cli_args, stdout, coeffs, diffs, C_env_A2, t_vals,
                   C_env_t, cli_exc, cli_exit>>
    /\ UNCHANGED <<mvars, fvars, kvars>>

\* the series model M, D is built, with dA0 forced to 0.0 under --zero-A0
series_model ==
    /\ cli_pc = "series_model"
    /\ series' =
         IF cli_args.zero_A0
         THEN [M |-> Series(Q(0, 1, 0), diffs.dA2m,
                            cli_args.max_dA4, cli_args.max_dA6),
               D |-> Series(Q(0, 1, 0), diffs.dA2d,
                            cli_args.dir_dA4, cli_args.dir_dA6)]
         ELSE [M |-> Series(diffs.dA0m, diffs.dA2m,
                            cli_args.max_dA4, cli_args.max_dA6),
               D |-> Series(diffs.dA0d, diffs.dA2d,
                            cli_args.dir_dA4, cli_args.dir_dA6)]
    /\ cli_pc' = "t_grid"
    /\ UNCHANGED <<argv, cli_args, stdout, coeffs, diffs, C_env_A0, C_env_A2,
                   t_vals, C_env_t, cli_exc, cli_exit>>
    /\ UNCHANGED <<mvars, fvars, kvars>>

\* t_vals = [float(tok) for tok in args.t_grid.split(",") if tok.strip()]
t_grid_values ==
    /\ cli_pc = "t_grid"
    /\ LET r == parse_t_grid(cli_args.t_grid)
       IN  IF r.exc # None
           THEN /\ cli_exc' = Exception(r)
                /\ cli_pc' = "raised"
                /\ UNCHANGED t_vals
           ELSE /\ t_vals' = r.val
                /\ cli_pc' = "series"
                /\ UNCHANGED cli_exc
    /\ UNCHANGED <<argv, cli_args, stdout, coeffs, diffs, C_env_A0, C_env_A2,
                   series, C_env_t, cli_exit>>
    /\ UNCHANGED <<mvars, fvars, kvars>>

\* the series ratio at every t of t_vals, then the spectral block
print_series_and_target ==
    /\ cli_pc = "series"
    /\ C_env_t' = [k \in 1..Len(t_vals) |->
                     C_env_series(series.M, series.D, t_vals[k]).val]
    /\ stdout' = stdout \o <<"C_env(t) from series model",
                             "Spectral and target values">>
    /\ cli_pc' = "finished"
    /\ UNCHANGED <<argv, cli_args, coeffs, diffs, C_env_A0, C_env_A2, series,
                   t_vals, cli_exc, cli_exit>>
    /\ UNCHANGED <<mvars, fvars, kvars>>

\* the interpreter exits: 0 at the end of main, 1 with a traceback after
\* an uncaught exception
cli_interpreter_exit ==
    /\ cli_pc \in {"finished", "raised"}
    /\ cli_exit' = IF cli_pc = "raised" THEN 1 ELSE 0
    /\ cli_pc' = "exited"
    /\ UNCHANGED <<argv, cli_args, stdout, coeffs, diffs, C_env_A0, C_env_A2,
                   series, t_vals, C_env_t, cli_exc>>
    /\ UNCHANGED <<mvars, fvars, kvars>>

CliNext ==
    \/ parse_args
    \/ print_geometry
    \/ print_coefficients
    \/ parity_differences
    \/ naive_ratios
    \/ print_odd_kernel
    \/ odd_kernel_call
    \/ K_odd_iteration
    \/ K_odd_return
    \/ odd_kernel_print
    \/ series_model
    \/ t_grid_values
    \/ print_series_and_target
    \/ cli_interpreter_exit

----------------------------------------------------------------------------
(* Specification of the pure functions: each step applies one function to  *)
(* inputs drawn from the sets below and keeps the previous call.           *)

MaxM == 12

planck_density_builtin == Q(516, 1, 94)

observed_density_builtin == Q(583, 1, -29)

\* densities offered to the logarithm: both signs and zero
DensityInputs ==
    { Q(583, 1, -29), Q(516, 1, -29), Q(-583, 1, -29), Q(-516, 1, -29),
      Q(0, 1, 0), Q(1, 1, 0) }

\* numerators and denominators offered to safe_ratio, around 1e-30
RatioNumerators == { Q(-3, 1, 0), Q(0, 1, 0), Q(7, 1, -31) }

RatioDenominators ==
    { Q(0, 1, 0), Q(5, 1, -31), Q(-5, 1, -31), Q(-999, 1, -33),
      Q(1, 1, -30), Q(-1, 1, -30), Q(2, 1, -30), Q(4, 1, 0), Q(-4, 1, 0) }

\* the initial state of a run with the built-in attributes
MobiusBuiltin ==
    /\ script = "mobius_index_verifcation"
    /\ cohomology_dimensions = cohomology_dimensions_builtin
    /\ pin_coefficients = pin_coefficients_builtin
    /\ planck_density = planck_density_builtin
    /\ observed_density = observed_density_builtin
    /\ pc = "start"
    /\ call = 0
    /\ i = 0
    /\ total_rank = None
    /\ panel_data = <<>>
    /\ ahss_data = Unset
    /\ m_rank = None
    /\ physics = Unset
    /\ test_m = None
    /\ sensitivity = <<>>
    /\ status = None
    /\ agreement = None
    /\ exc = NoException
    /\ exit_code = None

\* the initial state of a run with the default command line
CliDefault ==
    /\ argv = [alpha |-> "137.035999084", zero_A0 |-> FALSE,
               opt |-> [max_dA4 |-> "0.0", max_dA6 |-> "0.0",
                        dir_dA4 |-> "0.0", dir_dA6 |-> "0.0"],
               t_grid |-> <<"0.1", "0.05", " 0.02", "1e-2">>,
               print_odd_kernel |-> FALSE]
    /\ cli_pc = "parse_args"
    /\ cli_args = Unset
    /\ stdout = <<>>
    /\ coeffs = Unset
    /\ diffs = Unset
    /\ C_env_A0 = Unset
    /\ C_env_A2 = Unset
    /\ series = Unset
    /\ t_vals = <<>>
    /\ C_env_t = <<>>
    /\ cli_exc = NoException
    /\ cli_exit = None

\* no previous application of the same function
NoCall == [fn |-> None, args |-> <<>>, ret |-> None]

FnInit ==
    /\ fn = None
    /\ args = <<>>
    /\ ret = None
    /\ prev = NoCall

Call_decade_index ==
    \E file \in Scripts, m \in 0..MaxM :
        /\ fn' = "decade_index"
        /\ args' = <<file, m>>
        /\ ret' = Ok(decade_index_of(file, m))
        /\ prev' = IF fn = "decade_index"
                   THEN [fn |-> fn, args |-> args, ret |-> ret]
                   ELSE NoCall
        /\ UNCHANGED <<mvars, cvars, kvars>>

Call_safe_ratio ==
    \E num \in RatioNumerators, den \in RatioDenominators :
        /\ fn' = "safe_ratio"
        /\ args' = <<num, den>>
        /\ ret' = safe_ratio(num, den)
        /\ prev' = IF fn = "safe_ratio"
                   THEN [fn |-> fn, args |-> args, ret |-> ret]
                   ELSE NoCall
        /\ UNCHANGED <<mvars, cvars, kvars>>

\* agreement_decades = math.log10(observed_density / predicted_density)
Call_agreement ==
    \E observed \in DensityInputs, predicted \in DensityInputs :
        /\ fn' = "agreement"
        /\ args' = <<observed, predicted>>
        /\ ret' = log10_of_quotient(observed, predicted)
        /\ prev' = IF fn = "agreement"
                   THEN [fn |-> fn, args |-> args, ret |-> ret]
                   ELSE NoCall
        /\ UNCHANGED <<mvars, cvars, kvars>>

Call_verify_physical_prediction ==
    \E m \in 0..MaxM :
        /\ fn' = "verify_physical_prediction"
        /\ args' = <<planck_density_builtin, observed_density_builtin, m>>
        /\ ret' = verify_physical_prediction(planck_density_builtin,
                                             observed_density_builtin, m)
        /\ prev' = IF fn = "verify_physical_prediction"
                   THEN [fn |-> fn, args |-> args, ret |-> ret]
                   ELSE NoCall
        /\ UNCHANGED <<mvars, cvars, kvars>>

\* curvatures and pairs of volumes (S^3, RP^3) offered to the coefficient
\* functions: the built-in ones, others of ordinary size, tiny ones, and
\* the degenerate R = 0 and equal volumes
Curvatures == { R_scalar, QInt(-2), Q(1, 1, -31), QInt(0) }

VolumePairs ==
    { <<Vol_S3, Vol_RP3>>, <<QInt(1), QInt(3)>>,
      <<Q(2, 1, -31), Q(1, 1, -31)>>, <<QInt(1), QInt(1)>> }

\* the parity-projected differences (RP^3 - S^3) of the Maxwell and Dirac
\* coefficients, and the naive ratios taken from them; the coefficients of
\* each manifold and the differences are computed once, as the code's
\* local variables are
naive_C_env(R, V_S, V_RP) ==
    LET differences ==
          { [dA0m |-> QSub(m_RP.A0, m_S3.A0), dA2m |-> QSub(m_RP.A2, m_S3.A2),
             dA0d |-> QSub(d_RP.A0, d_S3.A0), dA2d |-> QSub(d_RP.A2, d_S3.A2)] :
              m_RP \in {A_coeffs_maxwell(V_RP, R)},
              m_S3 \in {A_coeffs_maxwell(V_S, R)},
              d_RP \in {A_coeffs_dirac(V_RP, R)},
              d_S3 \in {A_coeffs_dirac(V_S, R)} }
        results ==
          { [dA0m |-> d.dA0m, dA2m |-> d.dA2m,
             dA0d |-> d.dA0d, dA2d |-> d.dA2d,
             C_env_A0 |-> safe_ratio(d.dA0m, d.dA0d).val,
             C_env_A2 |-> safe_ratio(d.dA2m, d.dA2d).val] :
              d \in differences }
    IN  CHOOSE x \in results : TRUE

Call_naive_C_env ==
    \E R \in Curvatures, V \in VolumePairs :
        /\ fn' = "naive_C_env"
        /\ args' = <<R, V[1], V[2]>>
        /\ ret' = naive_C_env(R, V[1], V[2])
        /\ prev' = IF fn = "naive_C_env"
                   THEN [fn |-> fn, args |-> args, ret |-> ret]
                   ELSE NoCall
        /\ UNCHANGED <<mvars, cvars, kvars>>

FnNext ==
    \/ Call_decade_index
    \/ Call_safe_ratio
    \/ Call_agreement
    \/ Call_verify_physical_prediction
    \/ Call_naive_C_env

Init == MobiusInit /\ FnInit /\ CliDefault /\ KernelIdle

Next == MobiusNext

\* the runs of mobius_index_verifcation.py, MathProof.py, ahss_quickcheck.py
Spec == Init /\ [][Next]_vars

\* the pure functions
InitFn == MobiusBuiltin /\ FnInit /\ CliDefault /\ KernelIdle

SpecFn == InitFn /\ [][FnNext]_vars

\* the runs of C_env_micro_script.py
InitCli == MobiusBuiltin /\ FnInit /\ CliInit /\ KernelIdle

SpecCli == InitCli /\ [][CliNext]_vars

\* the largest Wmax offered to K_odd besides its default
MaxWmax == 3

\* a call K_odd(t, L, Wmax) from outside the kernel block
K_odd_call ==
    /\ K_pc \in {"idle", "returned"}
    /\ \E t \in {KernelTimes[k] : k \in 1..Len(KernelTimes)},
          L \in {L_default, QInt(1)},
          Wmax \in (0..MaxWmax) \cup {Wmax_default} :
            /\ K_t' = t
            /\ K_L' = L
            /\ K_Wmax' = Wmax
            /\ K_w' = -Wmax
    /\ K_s' = <<>>
    /\ K_visited' = <<>>
    /\ K_ret' = Unset
    /\ K_pc' = "loop"
    /\ UNCHANGED K_odd_printed
    /\ UNCHANGED <<mvars, fvars, cvars>>

KernelNext ==
    \/ K_odd_call
    \/ K_odd_iteration
    \/ K_odd_return

InitKernel == MobiusBuiltin /\ FnInit /\ CliDefault /\ KernelIdle

\* the interpreter keeps executing a call that is in progress
SpecKernel ==
    InitKernel /\ [][KernelNext]_vars
        /\ WF_vars(K_odd_iteration) /\ WF_vars(K_odd_return)


----------------------------------------------------------------------------
(* Properties of the pure functions, checked under SpecFn *)

RECURSIVE TwoToThe(_)
TwoToThe(m) == IF m = 0 THEN 1 ELSE 2 * TwoToThe(m - 1)

\* C2: for every non-negative integer m, decadeIndex(m) returns exactly
\* (2^m - 1) - m + 3, decadeIndex(7) is 123, and the three script variants
\* of decade_index return the same value on the same m.
C2_DecadeIndexClosedForm ==
    fn = "decade_index" =>
        /\ ret = Ok((TwoToThe(args[2]) - 1) - args[2] + 3)
        /\ (args[2] = 7 => ret.val = 123)
        /\ (prev.fn = "decade_index" /\ prev.args[2] = args[2]
                => prev.ret = ret)

C2_Witness ==
    /\ fn = "decade_index"
    /\ args = <<"mobius_index_verifcation", 7>>
    /\ ret.val = 123
    /\ prev.fn = "decade_index"
    /\ prev.args = <<"ahss_quickcheck", 7>>

\* C3 as stated: decadeIndex is strictly increasing for m >= 0, that is
\* decadeIndex(m) < decadeIndex(n) for all 0 <= m < n, the step from 0 to 1
\* included.
C3_StrictlyIncreasingFromZero ==
    (fn = "decade_index" /\ prev.fn = "decade_index"
        /\ prev.args[2] < args[2])
    => prev.ret.val < ret.val

\* C3 as amended: decadeIndex(m) < decadeIndex(n) for all 1 <= m < n, and
\* decadeIndex(m) <= decadeIndex(n) for all 0 <= m < n; the step from 0 to 1
\* is not an increase, decadeIndex(0) = decadeIndex(1) = 3.
C3_StrictlyIncreasingFromOne ==
    (fn = "decade_index" /\ prev.fn = "decade_index"
        /\ prev.args[2] < args[2])
    => /\ prev.ret.val <= ret.val
       /\ (prev.args[2] >= 1 => prev.ret.val < ret.val)
       /\ (prev.args[2] = 0 /\ args[2] = 1 => prev.ret.val = 3 /\ ret.val = 3)

C3_Witness ==
    /\ fn = "decade_index"
    /\ prev.fn = "decade_index"
    /\ prev.args[2] = 1
    /\ args[2] = 2
    /\ prev.ret.val = 3
    /\ ret.val = 4

\* |den| < 1e-30, read off the order of magnitude
BelowThreshold(den) == den.n = 0 \/ QOrder(den) < -30

\* C6: computeRatio(n, d) returns the undefined sentinel for every d with
\* |d| < 1e-30 (zero and negative d included) and never raises a division
\* error; for every d with |d| >= 1e-30 it returns 0.5 * n / d, for n and d
\* of either sign.
C6_SafeRatioSentinelOrHalfQuotient ==
    fn = "safe_ratio" =>
        /\ ret.exc = None
        /\ IF BelowThreshold(args[2])
           THEN ret.val = NaN
           ELSE /\ ret.val # NaN
                /\ QEq(QMul(QMul(QInt(2), ret.val), args[2]), args[1])

C6_Witness ==
    /\ fn = "safe_ratio"
    /\ args = <<Q(-3, 1, 0), Q(-5, 1, -31)>>
    /\ ret = Ok(NaN)
    /\ prev.fn = "safe_ratio"
    /\ prev.args = <<Q(-3, 1, 0), Q(-1, 1, -30)>>
    /\ prev.ret.exc = None
    /\ prev.ret.val # NaN

\* C7 as stated: agreementInDecades(observed, predicted) returns
\* log10(observed / predicted) when both arguments are positive and fails
\* with a domain error whenever either argument is non-positive (observed
\* <= 0, predicted <= 0 with predicted = 0 included, or both negative).
C7_DomainErrorIfEitherNonPositive ==
    fn = "agreement" =>
        IF args[1].n > 0 /\ args[2].n > 0
        THEN ret = Ok(Log10Milli(QDiv(args[1], args[2])))
        ELSE ret.exc = "ValueError"

\* C7 as amended: agreementInDecades returns log10(observed / predicted)
\* whenever the quotient is positive, that is when both arguments are
\* positive or both are negative; it fails with a domain error when the
\* quotient is zero or negative (observed = 0, or exactly one argument
\* negative, with predicted # 0); and it fails with a division-by-zero
\* error, not a domain error, when predicted = 0.
C7_DomainErrorIffQuotientNonPositive ==
    fn = "agreement" =>
        IF args[2].n = 0
        THEN ret.exc = "ZeroDivisionError"
        ELSE IF Sign(args[1].n) * Sign(args[2].n) <= 0
        THEN ret.exc = "ValueError"
        ELSE ret = Ok(Log10Milli(QDiv(QAbs(args[1]), QAbs(args[2]))))

C7_Witness ==
    /\ fn = "agreement"
    /\ args = <<Q(-583, 1, -29), Q(-516, 1, -29)>>
    /\ ret = Ok(53)
    /\ prev.fn = "agreement"
    /\ prev.args = <<Q(583, 1, -29), Q(0, 1, 0)>>
    /\ prev.ret.exc = "ZeroDivisionError"

\* C10: for every integer m in [0, 50] the round trip
\* agreementInDecades(observed, predictDensity(planck, decadeIndex(m)))
\* completes without error and equals log10(observed / planck) +
\* decadeIndex(m) (to the last digit kept by the logarithm); predictDensity
\* never yields a value that makes the agreement computation fail.
C10_RoundTripCompletes ==
    fn = "verify_physical_prediction" =>
        /\ ret.exc = None
        /\ Abs(ret.val.agreement_decades
               - (Log10Milli(QDiv(args[2], args[1]))
                  + 1000 * ((TwoToThe(args[3]) - 1) - args[3] + 3))) <= 1

----------------------------------------------------------------------------
(* Properties of the script runs, checked under Spec *)

BuiltinInputs ==
    /\ cohomology_dimensions = (2 :> 2) @@ (3 :> 1) @@ (4 :> 2) @@ (5 :> 2)
    /\ pin_coefficients = (0 :> 1) @@ (1 :> 1) @@ (2 :> 1) @@ (3 :> 1)
    /\ planck_density = Q(516, 1, 94)
    /\ observed_density = Q(583, 1, -29)

\* the panels [(5,0), (4,1), (3,2), (2,3)] of the claims
PanelP == <<5, 4, 3, 2>>

PanelQ == <<0, 1, 2, 3>>

\* C1: computeBordismRankSum returns, for the fixed panel list
\* [(5,0),(4,1),(3,2),(2,3)], one rank per panel equal to
\* cohomologyDims[p] * pinRanks[q] in panel order and a total equal to the
\* sum of those ranks; with the built-in mappings the ranks are [2,2,1,2]
\* and the total is 7.
C1_PanelRanksAndTotal ==
    IsSet(ahss_data) =>
        LET panels == ahss_data.panel_data
        IN  /\ Len(panels) = 4
            /\ \A k \in 1..4 :
                 /\ panels[k].p = PanelP[k]
                 /\ panels[k].q = PanelQ[k]
                 /\ PanelP[k] \in DOMAIN cohomology_dimensions
                 /\ PanelQ[k] \in DOMAIN pin_coefficients
                 /\ panels[k].rank = cohomology_dimensions[PanelP[k]]
                                       * pin_coefficients[PanelQ[k]]
            /\ ahss_data.total_rank = panels[1].rank + panels[2].rank
                                        + panels[3].rank + panels[4].rank
            /\ (BuiltinInputs =>
                  /\ [k \in 1..4 |-> panels[k].rank] = <<2, 2, 1, 2>>
                  /\ ahss_data.total_rank = 7)

C1_Witness ==
    /\ IsSet(ahss_data)
    /\ cohomology_dimensions = (2 :> 1) @@ (3 :> 2) @@ (4 :> 2) @@ (5 :> 2)
    /\ pin_coefficients = (0 :> 2) @@ (1 :> 1) @@ (2 :> 2) @@ (3 :> 1)
    /\ [k \in 1..4 |-> ahss_data.panel_data[k].rank] = <<4, 2, 4, 1>>
    /\ ahss_data.total_rank = 11

\* C4: end-to-end with the built-in inputs the total rank is 7, the rank
\* fed to the physical prediction is that same total, the decade index is
\* 123, the agreement log10(5.83e-27 / (5.16e96 * 10^-123)) is about 0.053,
\* below 0.1 in magnitude, and the run reports success.
C4_BuiltinEndToEnd ==
    (BuiltinInputs /\ pc = "exited") =>
        /\ exc = NoException
        /\ ahss_data.total_rank = 7
        /\ m_rank = ahss_data.total_rank
        /\ physics.I10 = 123
        /\ physics.agreement_decades = 53
        /\ Abs(physics.agreement_decades) < 100
        /\ (script = "mobius_index_verifcation" =>
              status = "SUCCESSFUL" /\ agreement = 53 /\ exit_code = 0)
        /\ (script = "MathProof" => status = "BREAKTHROUGH")

C4_Witness ==
    /\ BuiltinInputs
    /\ script = "mobius_index_verifcation"
    /\ pc = "exited"
    /\ status = "SUCCESSFUL"
    /\ exit_code = 0

KeyAbsent ==
    \E k \in 1..4 : \/ PanelP[k] \notin DOMAIN cohomology_dimensions
                    \/ PanelQ[k] \notin DOMAIN pin_coefficients

\* the key the first such panel misses, p looked up before q
FirstAbsentKey ==
    LET k == CHOOSE k \in 1..4 :
                /\ \/ PanelP[k] \notin DOMAIN cohomology_dimensions
                   \/ PanelQ[k] \notin DOMAIN pin_coefficients
                /\ \A j \in 1..(k - 1) :
                      /\ PanelP[j] \in DOMAIN cohomology_dimensions
                      /\ PanelQ[j] \in DOMAIN pin_coefficients
    IN  IF PanelP[k] \notin DOMAIN cohomology_dimensions
        THEN PanelP[k] ELSE PanelQ[k]

\* C8: if a p key is absent from the cohomology mapping or a q key from
\* the pin-rank mapping for a panel of the fixed list, computeBordismRankSum
\* fails with a lookup error at that panel and returns no panel breakdown
\* and no total (no partial sum, no fallback value); the mappings are left
\* unchanged.
C8_LookupErrorNoResult ==
    /\ [](KeyAbsent =>
            /\ ~IsSet(ahss_data)
            /\ ~IsSet(physics)
            /\ pc \in {"start", "panel", "raised", "exited"}
            /\ (pc \in {"raised", "exited"} =>
                  /\ exc.type = "KeyError"
                  /\ exc.arg = FirstAbsentKey))
    /\ [][/\ cohomology_dimensions' = cohomology_dimensions
          /\ pin_coefficients' = pin_coefficients]_vars

C8_Witness ==
    /\ script = "mobius_index_verifcation"
    /\ 3 \notin DOMAIN cohomology_dimensions
    /\ DOMAIN pin_coefficients = {0, 1, 2, 3}
    /\ pc = "exited"
    /\ exc = [type |-> "KeyError", arg |-> 3]
    /\ i = 3
    /\ Len(panel_data) = 2
    /\ ~IsSet(ahss_data)
    /\ exit_code = 2

----------------------------------------------------------------------------
(* Properties of the command-line script, checked under SpecCli *)

\* float rejects some non-blank token of --t-grid
MalformedTGrid ==
    \E k \in 1..Len(argv.t_grid) :
        argv.t_grid[k] \in {"abc", "1e-2x"}

ParsedOption(name) == ParseFloat(argv.opt[name]).val

\* C11: with --zero-A0 the series model has dA0 = 0 for both the Maxwell
\* and the Dirac series, while dA2, dA4 and dA6 of both are the values
\* used without the flag (the parity differences dA2 and the optional
\* coefficients of the command line); nothing else changes: the parity
\* differences keep their non-zero dA0 and the naive A0-leading and
\* A2-leading ratios are those of the unforced differences, 1/2 and -2/5.
C11_ZeroA0ForcesOnlySeriesA0 ==
    (IsSet(series) /\ cli_args.zero_A0) =>
        /\ QIsZero(series.M.dA0) /\ QIsZero(series.D.dA0)
        /\ series.M.dA2 = diffs.dA2m /\ series.D.dA2 = diffs.dA2d
        /\ series.M.dA4 = ParsedOption("max_dA4")
        /\ series.M.dA6 = ParsedOption("max_dA6")
        /\ series.D.dA4 = ParsedOption("dir_dA4")
        /\ series.D.dA6 = ParsedOption("dir_dA6")
        /\ ~QIsZero(diffs.dA0m) /\ ~QIsZero(diffs.dA0d)
        /\ ~QIsZero(diffs.dA2m) /\ ~QIsZero(diffs.dA2d)
        /\ QEq(C_env_A0, Q(1, 2, 0))
        /\ QEq(C_env_A2, Q(-2, 5, 0))

\* a finished run with --zero-A0 and non-zero optional coefficients
C11_Witness ==
    /\ cli_pc = "exited" /\ cli_exit = 0
    /\ cli_args.zero_A0
    /\ argv.opt.max_dA4 = "1"
    /\ QIsZero(series.M.dA0) /\ QIsZero(series.D.dA0)
    /\ Len(C_env_t) > 0

\* the odd integers of [-W, W], by definition: 2*j + 1 for an integer j
OddIntegers(W) == {x \in -W..W : \E j \in -(W + 1)..W : x = 2 * j + 1}

\* the k-th odd integer of [-W, W] in increasing order
KthOdd(W, k) == (IF W % 2 = 1 THEN -W ELSE -W + 1) + 2 * (k - 1)

\* what the loop of K_odd has done so far: it has visited an initial
\* stretch of -Wmax, -Wmax + 1, ..., Wmax, each value once, and the sum
\* holds one Gaussian term for every odd value visited and nothing else;
\* at the return the whole range has been visited once (2*Wmax + 1
\* passes), the terms are those of exactly the odd w (26 of them for
\* Wmax = 25), and the term of w is the term of -w.
KernelLoopInvariant ==
    K_pc \in {"loop", "returned"} =>
        /\ Len(K_visited) <= 2 * K_Wmax + 1
        /\ \A k \in 1..Len(K_visited) : K_visited[k] = -K_Wmax + (k - 1)
        /\ Len(K_s) =
             Cardinality({k \in 1..Len(K_visited) :
                            K_visited[k] \in OddIntegers(K_Wmax)})
        /\ \A k \in 1..Len(K_s) :
             K_s[k] = gaussian_term(K_L, KthOdd(K_Wmax, k), K_t)
        /\ K_pc = "returned" =>
             /\ Len(K_visited) = 2 * K_Wmax + 1
             /\ \A x \in -K_Wmax..K_Wmax :
                  Cardinality({k \in 1..Len(K_visited) :
                                 K_visited[k] = x}) = 1
             /\ Len(K_s) = Cardinality(OddIntegers(K_Wmax))
             /\ \A k \in 1..Len(K_s) : K_s[k] = K_s[Len(K_s) + 1 - k]
             /\ K_Wmax = Wmax_default => Len(K_s) = 26
             /\ K_ret.s = K_s

\* C12: K_odd(t, L, Wmax) always terminates, after visiting each integer
\* w of [-Wmax, Wmax] exactly once (2*Wmax + 1 passes, no convergence
\* test); it accumulates a Gaussian term for exactly the odd w, negative
\* ones included, and for no even w; with Wmax = 25 that is 26 terms, and
\* the contribution of w equals that of -w.
C12_KernelTerminatesOverOddWindings ==
    /\ []KernelLoopInvariant
    /\ (K_pc = "loop") ~> (K_pc = "returned")

\* a call with the default Wmax has returned with its 26 terms
C12_Witness ==
    /\ K_pc = "returned"
    /\ K_Wmax = Wmax_default
    /\ Len(K_visited) = 51
    /\ Len(K_s) = 26
    /\ K_s[1] = K_s[26]

\* V_RP - V_S of the last call of naive_C_env
VolumeDifference == QSub(args[3], args[2])

\* the differences named by C13: dA0 = 2*(V_RP - V_S) for both fields,
\* dA2(Maxwell) = -(2/3)*R*(V_RP - V_S), dA2(Dirac) = (5/6)*R*(V_RP - V_S)
DifferencesClosedForm ==
    /\ QEq(ret.dA0m, QMul(QInt(2), VolumeDifference))
    /\ QEq(ret.dA0d, QMul(QInt(2), VolumeDifference))
    /\ QEq(ret.dA2m, QMul(QMul(Q(-2, 3, 0), args[1]), VolumeDifference))
    /\ QEq(ret.dA2d, QMul(QMul(Q(5, 6, 0), args[1]), VolumeDifference))

\* C13 as stated: for any R # 0 and any V_RP # V_S the differences have
\* the closed forms above and the naive ratios are 1/2 (A0) and -2/5 (A2),
\* neither being the undefined sentinel.
C13_NaiveRatiosForAnyGeometry ==
    (fn = "naive_C_env" /\ ~QIsZero(args[1]) /\ ~QIsZero(VolumeDifference)) =>
        /\ DifferencesClosedForm
        /\ ret.C_env_A0 # NaN /\ QEq(ret.C_env_A0, Q(1, 2, 0))
        /\ ret.C_env_A2 # NaN /\ QEq(ret.C_env_A2, Q(-2, 5, 0))

\* C13 as the code has it: the differences have the closed forms for all
\* R and volumes; the A0 ratio is 1/2 when |dA0(Dirac)| >= 1e-30 and the
\* undefined sentinel when it is smaller, the A2 ratio is -2/5 when
\* |dA2(Dirac)| >= 1e-30 and the sentinel when it is smaller; for the
\* built-in R = 6, V_S = 2*pi^2, V_RP = pi^2 they are 1/2 and -2/5.
C13_NaiveRatiosAboveThreshold ==
    fn = "naive_C_env" =>
        /\ DifferencesClosedForm
        /\ IF BelowThreshold(ret.dA0d) THEN ret.C_env_A0 = NaN
           ELSE ret.C_env_A0 # NaN /\ QEq(ret.C_env_A0, Q(1, 2, 0))
        /\ IF BelowThreshold(ret.dA2d) THEN ret.C_env_A2 = NaN
           ELSE ret.C_env_A2 # NaN /\ QEq(ret.C_env_A2, Q(-2, 5, 0))
        /\ args = <<R_scalar, Vol_S3, Vol_RP3>> =>
             ret.C_env_A0 # NaN /\ ret.C_env_A2 # NaN

\* the built-in geometry has given 1/2 and -2/5
C13_Witness ==
    /\ fn = "naive_C_env"
    /\ args = <<R_scalar, Vol_S3, Vol_RP3>>
    /\ ret.C_env_A0 # NaN /\ QEq(ret.C_env_A0, Q(1, 2, 0))
    /\ ret.C_env_A2 # NaN /\ QEq(ret.C_env_A2, Q(-2, 5, 0))

====
